---- MODULE Spec2Model ----
(***************************************************************************)
(* Adaptive testing and scoring engine of simple_backend.py: the session   *)
(* map, create_session, get_current_question (next_item), submit_answer    *)
(* and AdaptiveTestEngine.estimate_theta.                                  *)
(*                                                                         *)
(* Reals are fixed point integers:                                         *)
(*   theta, difficulty      thousandths   (3.0  -> 3000)                   *)
(*   discrimination         tenths        (1.5  -> 15)                     *)
(*   probability p          1/10000       (0.5  -> 5000)                   *)
(*   information sum        1/10000                                        *)
(*   standard error se      hundredths, rounded up (0.3 -> 30)             *)
(* np.exp is rendered by a table of the logistic function at steps of 0.25 *)
(* with linear interpolation.                                              *)
(***************************************************************************)
EXTENDS Integers, Sequences, FiniteSets, TLC

\* ------------------------------------------------------------------ config
max_questions     == 50
min_questions     == 25
max_per_dimension == 10
min_per_dimension == 5
target_se         == 30
min_theta         == -3000
max_theta         == 3000
MaxIterations     == 50

irt_params_TwentyQuestions ==
    [max_questions |-> 20, min_questions |-> 10, max_per_dimension |-> 4,
     min_per_dimension |-> 2, target_se |-> target_se,
     min_theta |-> min_theta, max_theta |-> max_theta]

\* adaptive_engine.irt_params: AdaptiveTestEngine.__init__ stores a fresh
\* IRTParameters() and nothing assigns to it afterwards
irt_params ==
    [max_questions |-> max_questions, min_questions |-> min_questions,
     max_per_dimension |-> max_per_dimension,
     min_per_dimension |-> min_per_dimension, target_se |-> target_se,
     min_theta |-> min_theta, max_theta |-> max_theta]

PERSONALITY_DIMENSIONS ==
    <<"extraversion", "agreeableness", "conscientiousness", "neuroticism", "openness">>

\* list(questions_db.keys()): the order in which get_current_question advances
questions_db_keys ==
    <<"openness", "conscientiousness", "extraversion", "agreeableness", "neuroticism">>

Dimensions == {PERSONALITY_DIMENSIONS[i] : i \in 1..Len(PERSONALITY_DIMENSIONS)}

\* ------------------------------------------------------------- arithmetic
Abs(x) == IF x < 0 THEN -x ELSE x

\* float division followed by truncation to the fixed point grid
TruncDiv(a, b) == IF a >= 0 THEN a \div b ELSE -((-a) \div b)

\* floor(10000 / (1 + exp(-k/4))) for k = 0 .. 45
LogisticTable ==
    <<5000, 5621, 6224, 6791, 7310, 7772, 8175, 8519, 8807, 9046, 9241, 9399,
      9525, 9626, 9706, 9770, 9820, 9859, 9890, 9914, 9933, 9947, 9959, 9968,
      9975, 9980, 9984, 9988, 9990, 9992, 9994, 9995, 9996, 9997, 9997, 9998,
      9998, 9999, 9999, 9999, 9999, 9999, 9999, 9999, 9999, 9999>>

\* p = 1 / (1 + np.exp(-z)), z in 1/10000, for z >= 0
LogisticPos(z) ==
    LET k == z \div 2500
        r == z % 2500
    IN  IF k >= 45 THEN 9999
        ELSE LogisticTable[k + 1]
             + ((LogisticTable[k + 2] - LogisticTable[k + 1]) * r) \div 2500

Logistic(z) == IF z >= 0 THEN LogisticPos(z) ELSE 10000 - LogisticPos(-z)

\* discrimination**2 * p * (1 - p), in 1/10000
ItemInformation_Unweighted(theta, difficulty, discrimination) ==
    discrimination * discrimination * 100

ItemInformation(theta, difficulty, discrimination) ==
    LET p == Logistic(discrimination * (theta - difficulty))
    IN  (discrimination * discrimination * ((p * (10000 - p)) \div 100)) \div 10000

calculate_item_information(theta, difficulty, discrimination) ==
    ItemInformation(theta, difficulty, discrimination)

\* likelihood_derivative after the inner loop, in 1/100000
RECURSIVE ScoreSum_ExpectedMinusObserved(_, _, _, _, _)
ScoreSum_ExpectedMinusObserved(responses, difficulties, discriminations, theta, i) ==
    IF i > Len(responses) THEN 0
    ELSE discriminations[i]
           * (Logistic(discriminations[i] * (theta - difficulties[i]))
              - responses[i] * 10000)
         + ScoreSum_ExpectedMinusObserved(responses, difficulties,
                                          discriminations, theta, i + 1)

RECURSIVE ScoreSum(_, _, _, _, _)
ScoreSum(responses, difficulties, discriminations, theta, i) ==
    IF i > Len(responses) THEN 0
    ELSE discriminations[i]
           * (responses[i] * 10000
              - Logistic(discriminations[i] * (theta - difficulties[i])))
         + ScoreSum(responses, difficulties, discriminations, theta, i + 1)

\* information_sum after the inner loop, in 1/10000
RECURSIVE InfoSum(_, _, _, _)
InfoSum(difficulties, discriminations, theta, i) ==
    IF i > Len(difficulties) THEN 0
    ELSE ItemInformation(theta, difficulties[i], discriminations[i])
         + InfoSum(difficulties, discriminations, theta, i + 1)

ClampTheta_Unclamped(theta_new) == theta_new

\* max(min_theta, min(max_theta, theta_new))
ClampTheta(theta_new) ==
    IF theta_new < min_theta THEN min_theta
    ELSE IF theta_new > max_theta THEN max_theta ELSE theta_new

\* The Newton-Raphson loop from iteration `iteration` on; the result is
\* <<theta, information_sum>> as they stand when the loop ends.  When the
\* clamped update leaves theta where it was, every later iteration repeats
\* this one, so the loop is cut short there with the same result.
RECURSIVE NewtonRaphson(_, _, _, _, _)
NewtonRaphson(responses, difficulties, discriminations, theta, iteration) ==
    LET likelihood_derivative ==
            ScoreSum(responses, difficulties, discriminations, theta, 1)
        information_sum == InfoSum(difficulties, discriminations, theta, 1)
    IN  IF information_sum > 0
        THEN LET step == TruncDiv(likelihood_derivative * 100, information_sum)
                 theta_next == ClampTheta(theta + step)
             IN  IF step = 0 THEN <<theta, information_sum>>
                 ELSE IF iteration + 1 >= MaxIterations \/ theta_next = theta
                      THEN <<theta_next, information_sum>>
                      ELSE NewtonRaphson(responses, difficulties, discriminations,
                                         theta_next, iteration + 1)
        ELSE <<theta, information_sum>>

\* least m with (m/100)^2 * x >= 1, x in 1/10000: 1/sqrt(x) rounded up
InvSqrt(x) ==
    LET k == (100000000 + x - 1) \div x
    IN  CHOOSE m \in 0..400 : m * m >= k /\ (m = 0 \/ (m - 1) * (m - 1) < k)

StdError(information_sum) ==
    InvSqrt(IF information_sum > 1000 THEN information_sum ELSE 1000)

\* the number of passes of the loop "for iteration in range(50)" that run
RECURSIVE NewtonIterations(_, _, _, _, _)
NewtonIterations(responses, difficulties, discriminations, theta, iteration) ==
    LET likelihood_derivative ==
            ScoreSum(responses, difficulties, discriminations, theta, 1)
        information_sum == InfoSum(difficulties, discriminations, theta, 1)
    IN  IF information_sum > 0
        THEN LET step == TruncDiv(likelihood_derivative * 100, information_sum)
                 theta_next == ClampTheta(theta + step)
             IN  IF step = 0 THEN iteration + 1
                 ELSE IF iteration + 1 >= MaxIterations \/ theta_next = theta
                      THEN MaxIterations
                      ELSE NewtonIterations(responses, difficulties, discriminations,
                                            theta_next, iteration + 1)
        ELSE iteration + 1

\* passes run by one call of estimate_theta: none when it returns at once
Iterations(responses, difficulties, discriminations) ==
    IF Len(responses) = 0 THEN 0
    ELSE NewtonIterations(responses, difficulties, discriminations, 0, 0)

estimate_theta_NoEmptyCase(responses, difficulties, discriminations) ==
    LET r == NewtonRaphson(responses, difficulties, discriminations, 0, 0)
    IN  <<r[1], StdError(r[2])>>

estimate_theta(responses, difficulties, discriminations) ==
    IF Len(responses) = 0 THEN <<0, 100>>
    ELSE LET r == NewtonRaphson(responses, difficulties, discriminations, 0, 0)
         IN  <<r[1], StdError(r[2])>>


\* ------------------------------------------------------------ item pools
Item(id, difficulty, discrimination, reverse_scored) ==
    [question_id |-> id, difficulty |-> difficulty,
     discrimination |-> discrimination, reverse_scored |-> reverse_scored]

\* Pools as _get_optimized_question_bank builds them: ten items per
\* dimension, ids prefix + position, parameters in the ranges of the built-in
\* bank (difficulty -1.2 .. 1.0, discrimination 1.2 .. 1.8).
BankPools ==
    [openness |->
       <<Item("o1", -800, 15, FALSE), Item("o2", 600, 17, FALSE),
         Item("o3", 200, 17, FALSE),  Item("o4", 700, 18, FALSE),
         Item("o5", -600, 15, FALSE), Item("o6", -300, 14, FALSE),
         Item("o7", 800, 18, FALSE),  Item("o8", 900, 16, FALSE),
         Item("o9", 1000, 18, FALSE), Item("o10", 600, 16, FALSE)>>,
     conscientiousness |->
       <<Item("c1", -800, 17, FALSE), Item("c2", -600, 18, FALSE),
         Item("c3", 800, 17, TRUE),   Item("c4", -700, 15, FALSE),
         Item("c5", 600, 17, FALSE),  Item("c6", 100, 14, FALSE),
         Item("c7", -800, 17, FALSE), Item("c8", 600, 17, FALSE),
         Item("c9", -600, 18, FALSE), Item("c10", 800, 17, TRUE)>>,
     extraversion |->
       <<Item("e1", -1200, 15, FALSE), Item("e2", -800, 17, FALSE),
         Item("e3", 800, 17, TRUE),    Item("e4", 1000, 13, TRUE),
         Item("e5", 700, 16, FALSE),   Item("e6", -600, 14, FALSE),
         Item("e7", 900, 17, FALSE),   Item("e8", 600, 14, FALSE),
         Item("e9", -700, 12, FALSE),  Item("e10", 500, 18, FALSE)>>,
     agreeableness |->
       <<Item("a1", -1000, 14, FALSE), Item("a2", -800, 13, FALSE),
         Item("a3", -1200, 15, FALSE), Item("a4", -600, 14, FALSE),
         Item("a5", -900, 13, FALSE),  Item("a6", 800, 16, FALSE),
         Item("a7", -700, 13, FALSE),  Item("a8", 600, 16, FALSE),
         Item("a9", -300, 17, FALSE),  Item("a10", -800, 12, FALSE)>>,
     neuroticism |->
       <<Item("n1", -800, 16, FALSE), Item("n2", 600, 18, FALSE),
         Item("n3", -600, 14, FALSE), Item("n4", 0, 15, FALSE),
         Item("n5", -800, 16, FALSE), Item("n6", 600, 18, FALSE),
         Item("n7", -600, 14, FALSE), Item("n8", 600, 18, FALSE),
         Item("n9", -800, 16, FALSE), Item("n10", -600, 14, FALSE)>>]

\* A pool served from the question cache (generate_personalized_questions
\* returns self.cache[cache_key] unchanged): items calibrated with the
\* discrimination 2.5 the generation prompt allows.
CachedPool(prefix) ==
    <<Item(prefix[1], 500, 25, FALSE),  Item(prefix[2], 600, 25, FALSE),
      Item(prefix[3], 700, 25, FALSE),  Item(prefix[4], 800, 25, FALSE),
      Item(prefix[5], 900, 25, FALSE),  Item(prefix[6], 1000, 25, FALSE),
      Item(prefix[7], 700, 25, FALSE),  Item(prefix[8], 800, 25, FALSE),
      Item(prefix[9], 900, 25, FALSE),  Item(prefix[10], 600, 25, FALSE)>>

GeneratedPools ==
    [BankPools EXCEPT
       !["openness"] = CachedPool(<<"o1", "o2", "o3", "o4", "o5",
                                    "o6", "o7", "o8", "o9", "o10">>),
       !["neuroticism"] = CachedPool(<<"n1", "n2", "n3", "n4", "n5",
                                       "n6", "n7", "n8", "n9", "n10">>)]

\* the pools generate_personalized_questions hands to create_session: openness
\* and neuroticism are cache hits, the other dimensions come from the bank
PoolChoices == {GeneratedPools}

\* Cache entries of other shapes (load_cache takes whatever the cache file
\* holds, and a cache hit is returned without looking at its length): an
\* openness pool of four items none of which lies in the medium band.
SparsePools ==
    [BankPools EXCEPT
       !["openness"] = <<Item("o1", 800, 15, FALSE), Item("o2", -900, 12, FALSE),
                         Item("o3", 1500, 20, TRUE), Item("o4", 600, 10, FALSE)>>]

\* the bank's openness pool, and a cached conscientiousness pool of six items
ShortPools ==
    [BankPools EXCEPT
       !["conscientiousness"] =
           <<Item("c1", -800, 17, FALSE), Item("c2", 300, 18, FALSE),
             Item("c3", 800, 17, TRUE),   Item("c4", -200, 15, FALSE),
             Item("c5", 600, 17, FALSE),  Item("c6", 1200, 14, FALSE)>>]

SparsePoolChoices == {SparsePools, ShortPools}

\* The cache after its entries were replaced: the first two openness items
\* are as in GeneratedPools, the other openness items and the
\* conscientiousness pool carry different parameters.
RecalibratedPools ==
    [GeneratedPools EXCEPT
       !["openness"] =
           <<Item("o1", 500, 25, FALSE),  Item("o2", 600, 25, FALSE),
             Item("o3", -200, 14, FALSE), Item("o4", 300, 12, TRUE),
             Item("o5", 1200, 20, FALSE), Item("o6", -700, 16, FALSE),
             Item("o7", 100, 18, FALSE),  Item("o8", 400, 22, FALSE),
             Item("o9", -1500, 9, FALSE), Item("o10", 0, 15, FALSE)>>,
       !["conscientiousness"] = CachedPool(<<"c1", "c2", "c3", "c4", "c5",
                                             "c6", "c7", "c8", "c9", "c10">>)]

TwinPoolChoices == {GeneratedPools, RecalibratedPools}

\* ------------------------------------------------------------ the client
SessionIds == {"s1"}

\* How the respondent answers an item (raw Likert response 1..5).
Styles == {"agree", "graded"}

Respond(style, q) ==
    IF style = "agree" THEN 5
    ELSE IF q.difficulty <= 0 THEN 5
    ELSE IF q.difficulty <= 700 THEN 4
    ELSE IF q.difficulty <= 800 THEN 3
    ELSE IF q.difficulty <= 900 THEN 2
    ELSE 1

\* cap on the answers one session receives (submit_answer itself has none)
MaxAnswers == 51

\* ------------------------------------------------------------------ state
VARIABLES
    sessions,     \* the global session map: session_id -> session
    reply,        \* the response to the last request
    respondent,   \* session_id -> answering style of the person taking the test
    phase,        \* "following" | "retrying" | "resumed": the client's history
    tasks,        \* request id -> frame of a submit_answer coroutine on the event loop
    persisted,    \* the session map in SESSIONS_FILE, as save_sessions last wrote it
    call          \* the last direct call of an AdaptiveTestEngine method

vars == <<sessions, reply, respondent, phase, tasks, persisted, call>>

NoCall == [method |-> "none"]

NoReply == [kind |-> "none", question_id |-> "", dimension |-> "",
            total_answered |-> 0]

NewSession_FirstListed(all_questions) ==
    [status |-> "active",
     current_dimension |-> PERSONALITY_DIMENSIONS[1],
     completed_at |-> "None",
     questions_answered |-> [dim \in Dimensions |-> <<>>],
     theta |-> [dim \in Dimensions |-> 0],
     se |-> [dim \in Dimensions |-> 100],
     dimension_question_count |-> [dim \in Dimensions |-> 0],
     generated_questions |-> all_questions,
     total_questions_answered |-> 0]

\* the session dict create_session stores
NewSession(all_questions) ==
    [status |-> "active",
     current_dimension |-> "openness",
     completed_at |-> "None",
     questions_answered |-> [dim \in Dimensions |-> <<>>],
     theta |-> [dim \in Dimensions |-> 0],
     se |-> [dim \in Dimensions |-> 100],
     dimension_question_count |-> [dim \in Dimensions |-> 0],
     generated_questions |-> all_questions,
     total_questions_answered |-> 0]

\* ---------------------------------------------------------------- helpers
SeqSum(f, dims) ==
    LET RECURSIVE Acc(_)
        Acc(i) == IF i > Len(dims) THEN 0 ELSE f[dims[i]] + Acc(i + 1)
    IN  Acc(1)

IndexOf(seq, x) == CHOOSE i \in 1..Len(seq) : seq[i] = x

AnsweredIds(session, dim) ==
    {session.questions_answered[dim][i].question_id :
        i \in 1..Len(session.questions_answered[dim])}

AvailableQuestions_Unfiltered(session, dim) ==
    session.generated_questions[dim]

\* available_questions of get_current_question, in pool order
AvailableQuestions(session, dim) ==
    SelectSeq(session.generated_questions[dim],
              LAMBDA q : q.question_id \notin AnsweredIds(session, dim))

MediumQuestions_Unrestricted(available_questions) == available_questions

MediumQuestions(available_questions) ==
    SelectSeq(available_questions,
              LAMBDA q : -500 <= q.difficulty /\ q.difficulty <= 500)

ClosestQuestion_LastOfTies(available_questions, theta) ==
    LET d(i) == Abs(available_questions[i].difficulty - theta)
        best == CHOOSE i \in 1..Len(available_questions) :
                  \A j \in 1..Len(available_questions) :
                      d(i) < d(j) \/ (d(i) = d(j) /\ i >= j)
    IN  available_questions[best]

\* min(available_questions, key=lambda q: abs(q["difficulty"] - theta)):
\* the first item of least distance
ClosestQuestion(available_questions, theta) ==
    LET d(i) == Abs(available_questions[i].difficulty - theta)
        best == CHOOSE i \in 1..Len(available_questions) :
                  \A j \in 1..Len(available_questions) :
                      d(i) < d(j) \/ (d(i) = d(j) /\ i <= j)
    IN  available_questions[best]

\* AdaptiveTestEngine.select_next_item: the first candidate of greatest
\* information, or None; no handler calls it
select_next_item(theta, available_questions, answered_questions) ==
    LET answered_ids == {answered_questions[i].question_id :
                            i \in 1..Len(answered_questions)}
        candidates == SelectSeq(available_questions,
                                LAMBDA q : q.question_id \notin answered_ids)
        information(i) == calculate_item_information(theta,
                              candidates[i].difficulty, candidates[i].discrimination)
    IN  IF Len(candidates) = 0 THEN Item("None", 0, 0, FALSE)
        ELSE candidates[CHOOSE i \in 1..Len(candidates) :
                 \A j \in 1..Len(candidates) :
                     information(i) > information(j)
                     \/ (information(i) = information(j) /\ i <= j)]

\* AdaptiveTestEngine.should_stop_testing; no handler calls it
should_stop_testing(se, num_questions, dimension_questions) ==
    IF se <= target_se THEN TRUE
    ELSE IF Len(dimension_questions) >= max_per_dimension THEN TRUE
    ELSE IF num_questions >= max_questions THEN TRUE
    ELSE IF Len(dimension_questions) < min_per_dimension THEN FALSE
    ELSE FALSE

\* the questions get_current_question may return for the dimension
Selectable(session, dim) ==
    LET available_questions == AvailableQuestions(session, dim)
        medium_questions == MediumQuestions(available_questions)
        members(seq) == {seq[i] : i \in 1..Len(seq)}
    IN  IF Len(session.questions_answered[dim]) = 0
        THEN IF Len(medium_questions) > 0 THEN members(medium_questions)
             ELSE members(available_questions)
        ELSE IF Len(available_questions) = 0 THEN {}
             ELSE {ClosestQuestion(available_questions, session.theta[dim])}

BinaryResponse_ThresholdThree(aq) ==
    LET response_value == IF aq.reverse_scored THEN 6 - aq.response
                          ELSE aq.response
    IN  IF response_value >= 3 THEN 1 ELSE 0

\* the reverse scoring and binarization loop of submit_answer
BinaryResponse(aq) ==
    LET response_value == IF aq.reverse_scored THEN 6 - aq.response
                          ELSE aq.response
    IN  IF response_value >= 4 THEN 1 ELSE 0

NeedsMoreQuestions_NoMaximum(dim_questions, dim_se) ==
    \/ Len(dim_questions) < min_per_dimension
    \/ dim_se > target_se

\* "dimension needs more questions" test of the completion loop
NeedsMoreQuestions(dim_questions, dim_se) ==
    \/ Len(dim_questions) < min_per_dimension
    \/ /\ dim_se > target_se
       /\ Len(dim_questions) < max_per_dimension

AllDimensionsComplete(session) ==
    \A i \in 1..Len(PERSONALITY_DIMENSIONS) :
        ~NeedsMoreQuestions(session.questions_answered[PERSONALITY_DIMENSIONS[i]],
                            session.se[PERSONALITY_DIMENSIONS[i]])

MaxPerDimensionReached_Minimum(session, dim) ==
    session.dimension_question_count[dim] >= min_per_dimension

MaxPerDimensionReached_Precision(session, dim) ==
    \/ session.dimension_question_count[dim] >= max_per_dimension
    \/ /\ session.dimension_question_count[dim] >= min_per_dimension
       /\ session.se[dim] <= target_se

MaxPerDimensionReached(session, dim) ==
    session.dimension_question_count[dim] >= max_per_dimension

\* current_index + 1 < len(dimensions), with current_index counted from 0
HasNextDimension(current_dimension) ==
    IndexOf(questions_db_keys, current_dimension) + 1 <= Len(questions_db_keys)

NextDimension_OffByOne(current_dimension) ==
    LET i == IndexOf(questions_db_keys, current_dimension) + 2
    IN  questions_db_keys[IF i <= Len(questions_db_keys) THEN i
                          ELSE Len(questions_db_keys)]

\* dimensions[current_index + 1]
NextDimension(current_dimension) ==
    questions_db_keys[IndexOf(questions_db_keys, current_dimension) + 1]

\* -------------------------------------------------------------- operations
Init ==
    /\ sessions = <<>>
    /\ reply = NoReply
    /\ respondent = <<>>
    /\ phase = "following"
    /\ tasks = <<>>
    /\ persisted = <<>>
    /\ call = NoCall

create_session_ReusedId(session_id, all_questions) ==
    /\ sessions' = (session_id :> NewSession(all_questions)) @@ sessions
    /\ reply' = [kind |-> "created", question_id |-> "",
                 dimension |-> "openness", total_answered |-> 0]
    /\ persisted' = sessions'

\* POST /api/sessions: a fresh uuid, the pools of the question generator
create_session(session_id, all_questions) ==
    /\ session_id \notin DOMAIN sessions
    /\ sessions' = sessions @@ (session_id :> NewSession(all_questions))
    /\ reply' = [kind |-> "created", question_id |-> "",
                 dimension |-> "openness", total_answered |-> 0]
    /\ persisted' = sessions'

\* GET /api/sessions/{session_id}/question
get_current_question(session_id) ==
    /\ UNCHANGED persisted
    /\ IF session_id \notin DOMAIN sessions
       THEN /\ reply' = [NoReply EXCEPT !.kind = "session_not_found"]
            /\ UNCHANGED sessions
       ELSE
         LET session == sessions[session_id]
             current_dimension == session.current_dimension
             reached == MaxPerDimensionReached(session, current_dimension)
         IN  IF reached /\ ~HasNextDimension(current_dimension)
             THEN \* test is complete: 404 "No more questions"
                  /\ sessions' = [sessions EXCEPT ![session_id].status = "completed"]
                  /\ reply' = [NoReply EXCEPT !.kind = "no_more_questions"]
             ELSE
               LET moved == IF reached
                            THEN [session EXCEPT !.current_dimension =
                                      NextDimension(current_dimension)]
                            ELSE session
                   dim == moved.current_dimension
                   choices == Selectable(moved, dim)
               IN  IF choices = {}
                   THEN \* random.choice / min of an empty list raises: 500
                        /\ sessions' = [sessions EXCEPT ![session_id] = moved]
                        /\ reply' = [NoReply EXCEPT !.kind = "error"]
                   ELSE \E next_question \in choices :
                        /\ sessions' = [sessions EXCEPT ![session_id] = moved]
                        /\ reply' = [kind |-> "question",
                                     question_id |-> next_question.question_id,
                                     dimension |-> dim,
                                     total_answered |->
                                         SeqSum(moved.dimension_question_count,
                                                PERSONALITY_DIMENSIONS)]

RecordAnswer_SharedList(session, question, response) ==
    LET answered_question ==
            [question_id |-> question.question_id,
             response |-> response,
             difficulty |-> question.difficulty,
             discrimination |-> question.discrimination,
             reverse_scored |-> question.reverse_scored]
    IN  [session EXCEPT
           !.questions_answered =
               [dim \in Dimensions |-> Append(@[dim], answered_question)],
           !.dimension_question_count[session.current_dimension] =
               Len(session.questions_answered[session.current_dimension]) + 1]

\* the answered_question record is appended and the dimension count refreshed
RecordAnswer(session, question, response) ==
    LET current_dimension == session.current_dimension
        answered_question ==
            [question_id |-> question.question_id,
             response |-> response,
             difficulty |-> question.difficulty,
             discrimination |-> question.discrimination,
             reverse_scored |-> question.reverse_scored]
        answered_questions ==
            Append(session.questions_answered[current_dimension], answered_question)
    IN  [session EXCEPT
           !.questions_answered[current_dimension] = answered_questions,
           !.dimension_question_count[current_dimension] = Len(answered_questions)]

UpdateEstimate_Online(session) ==
    LET current_dimension == session.current_dimension
        answered_questions == session.questions_answered[current_dimension]
        n == Len(answered_questions)
        r == NewtonRaphson([i \in 1..n |-> BinaryResponse(answered_questions[i])],
                           [i \in 1..n |-> answered_questions[i].difficulty],
                           [i \in 1..n |-> answered_questions[i].discrimination],
                           session.theta[current_dimension], MaxIterations - 1)
    IN  [session EXCEPT !.theta[current_dimension] = r[1],
                        !.se[current_dimension] = StdError(r[2])]

\* theta and se of the current dimension, estimated anew from all its answers
UpdateEstimate(session) ==
    LET current_dimension == session.current_dimension
        answered_questions == session.questions_answered[current_dimension]
        n == Len(answered_questions)
        estimate ==
            estimate_theta([i \in 1..n |-> BinaryResponse(answered_questions[i])],
                           [i \in 1..n |-> answered_questions[i].difficulty],
                           [i \in 1..n |-> answered_questions[i].discrimination])
    IN  [session EXCEPT !.theta[current_dimension] = estimate[1],
                        !.se[current_dimension] = estimate[2]]

CountAnswer_Forgotten(session) == session

\* session["total_questions_answered"] = session.get(..., 0) + 1
CountAnswer(session) ==
    [session EXCEPT !.total_questions_answered = @ + 1]

Recorded(session, question, response) ==
    CountAnswer(UpdateEstimate(RecordAnswer(session, question, response)))

\* the completion check at the end of submit_answer
TestComplete(session) ==
    \/ session.total_questions_answered >= max_questions
    \/ AllDimensionsComplete(session)

Completed_StatusUntouched(session) == session

Completed(session) ==
    IF TestComplete(session)
    THEN [session EXCEPT !.status = "completed", !.completed_at = "set"]
    ELSE session

submit_answer_CountsRefused(session_id, question_id, response) ==
    /\ IF session_id \notin DOMAIN sessions
       THEN /\ reply' = [NoReply EXCEPT !.kind = "session_not_found"]
            /\ sessions' = [sid \in DOMAIN sessions |->
                               CountAnswer(sessions[sid])]
       ELSE
         LET session == sessions[session_id]
             current_dimension == session.current_dimension
             pool == session.generated_questions[current_dimension]
             found == {i \in 1..Len(pool) : pool[i].question_id = question_id}
         IN  IF found = {}
             THEN /\ reply' = [NoReply EXCEPT !.kind = "question_not_found"]
                  /\ UNCHANGED sessions
             ELSE
               LET question == pool[CHOOSE i \in found : \A j \in found : i <= j]
                   after == Completed(Recorded(session, question, response))
               IN  /\ sessions' = [sessions EXCEPT ![session_id] = after]
                   /\ reply' = [kind |-> "submitted",
                                question_id |-> question_id,
                                dimension |-> current_dimension,
                                total_answered |-> after.total_questions_answered]
    /\ persisted' = IF reply'.kind = "submitted" THEN sessions' ELSE persisted

\* POST /api/answers
submit_answer(session_id, question_id, response) ==
    /\ IF session_id \notin DOMAIN sessions
       THEN /\ reply' = [NoReply EXCEPT !.kind = "session_not_found"]
            /\ UNCHANGED sessions
       ELSE
         LET session == sessions[session_id]
             current_dimension == session.current_dimension
             pool == session.generated_questions[current_dimension]
             found == {i \in 1..Len(pool) : pool[i].question_id = question_id}
         IN  IF found = {}
             THEN /\ reply' = [NoReply EXCEPT !.kind = "question_not_found"]
                  /\ UNCHANGED sessions
             ELSE
               LET question == pool[CHOOSE i \in found : \A j \in found : i <= j]
                   after == Completed(Recorded(session, question, response))
               IN  /\ sessions' = [sessions EXCEPT ![session_id] = after]
                   /\ reply' = [kind |-> "submitted",
                                question_id |-> question_id,
                                dimension |-> current_dimension,
                                total_answered |-> after.total_questions_answered]
    /\ persisted' = IF reply'.kind = "submitted" THEN sessions' ELSE persisted

\* ------------------------------------------------------------- the client
PoolItem(session, question_id) ==
    LET pool == session.generated_questions[session.current_dimension]
    IN  pool[CHOOSE i \in 1..Len(pool) : pool[i].question_id = question_id]

\* question ids a client may hold that are not in the current pool
StrayIds == {"o1", "n1", "q0"}

\* session ids a client may hold that the server does not know
UnknownSessionIds == {"s0"}

CreateSession(sid) ==
    \E all_questions \in PoolChoices, style \in Styles :
        /\ create_session(sid, all_questions)
        /\ respondent' = respondent @@ (sid :> style)
        /\ UNCHANGED <<phase, tasks, call>>

NextItem(sid) ==
    /\ get_current_question(sid)
    /\ phase' = IF phase = "retrying" THEN "resumed" ELSE phase
    /\ UNCHANGED <<respondent, tasks, call>>

\* the client answers the question it was just given
Answer(sid) ==
    /\ sid \in DOMAIN sessions
    /\ reply.kind = "question"
    /\ sessions[sid].total_questions_answered < MaxAnswers
    /\ submit_answer(sid, reply.question_id,
                     Respond(respondent[sid], PoolItem(sessions[sid], reply.question_id)))
    /\ UNCHANGED <<respondent, phase, tasks, call>>

\* the client sends the answer it has just submitted once more
Retry(sid) ==
    /\ sid \in DOMAIN sessions
    /\ reply.kind = "submitted"
    /\ phase # "resumed"
    /\ sessions[sid].total_questions_answered < MaxAnswers
    /\ submit_answer(sid, reply.question_id,
                     Respond(respondent[sid], PoolItem(sessions[sid], reply.question_id)))
    /\ phase' = "retrying"
    /\ UNCHANGED <<respondent, tasks, call>>

\* the client answers with an unknown session id, or with a question id that
\* is not in the pool of the current dimension
StrayAnswer(sid) ==
    \E question_id \in StrayIds, response \in {3} :
        /\ \/ sid \notin DOMAIN sessions
           \/ /\ reply.kind = "question"
              /\ \A i \in 1..Len(sessions[sid].generated_questions[
                                   sessions[sid].current_dimension]) :
                     sessions[sid].generated_questions[
                         sessions[sid].current_dimension][i].question_id # question_id
        /\ submit_answer(sid, question_id, response)
        /\ UNCHANGED <<respondent, phase, tasks, call>>

\* the client answers the question it was given under a session id the
\* server does not know
LostSession(sid) ==
    \E unknown \in UnknownSessionIds :
        /\ sid \in DOMAIN sessions
        /\ reply.kind = "question"
        /\ submit_answer(unknown, reply.question_id,
                         Respond(respondent[sid], PoolItem(sessions[sid], reply.question_id)))
        /\ UNCHANGED <<respondent, phase, tasks, call>>

Next ==
    \E sid \in SessionIds :
        \/ CreateSession(sid)
        \/ NextItem(sid)
        \/ Answer(sid)
        \/ Retry(sid)
        \/ StrayAnswer(sid)
        \/ LostSession(sid)

Spec == Init /\ [][Next]_vars

\* The same server with sessions whose pools come from SparsePoolChoices, and
\* a client that answers every question it is given exactly once.
CreateSessionSparse(sid) ==
    \E all_questions \in SparsePoolChoices, style \in Styles :
        /\ create_session(sid, all_questions)
        /\ respondent' = respondent @@ (sid :> style)
        /\ UNCHANGED <<phase, tasks, call>>

NextSparse ==
    \E sid \in SessionIds :
        \/ CreateSessionSparse(sid)
        \/ NextItem(sid)
        \/ Answer(sid)

SpecSparse == Init /\ [][NextSparse]_vars

\* ------------------------------------------------- the event loop
\* submit_answer is an "async def" route: each request is a coroutine on the
\* one event loop of uvicorn.run, and the loop switches coroutines only
\* where the running one awaits.  The handler is split at its statements; a
\* frame holds the coroutine's position and locals.
TaskIds == {"r1", "r2"}

\* cap on the answers of a session with requests in flight
MaxConcurrentAnswers == 6

Suspends_BeforeStore(pc) == pc = "store"

\* the statements of submit_answer at which the coroutine awaits: none
Suspends(pc) == FALSE

NewTask(session_id, question_id, response) ==
    [pc |-> "lookup", session_id |-> session_id, question_id |-> question_id,
     response |-> response, new_theta |-> 0, new_se |-> 0, result |-> "none"]

\* one statement group of submit_answer run on the session map ss
HandlerStep(ss, frame) ==
    LET known == frame.session_id \in DOMAIN ss
        session == ss[frame.session_id]
        pool == session.generated_questions[session.current_dimension]
        found == {i \in 1..Len(pool) : pool[i].question_id = frame.question_id}
        question == pool[CHOOSE i \in found : \A j \in found : i <= j]
    IN  CASE frame.pc = "lookup" ->
               [ss |-> ss,
                frame |-> IF ~known
                          THEN [frame EXCEPT !.pc = "done",
                                             !.result = "session_not_found"]
                          ELSE IF found = {}
                          THEN [frame EXCEPT !.pc = "done",
                                             !.result = "question_not_found"]
                          ELSE [frame EXCEPT !.pc = "record"]]
          [] frame.pc = "record" ->
               [ss |-> [ss EXCEPT ![frame.session_id] =
                           RecordAnswer(session, question, frame.response)],
                frame |-> [frame EXCEPT !.pc = "estimate"]]
          [] frame.pc = "estimate" ->
               LET estimated == UpdateEstimate(session)
               IN  [ss |-> ss,
                    frame |-> [frame EXCEPT
                       !.pc = "store",
                       !.new_theta = estimated.theta[session.current_dimension],
                       !.new_se = estimated.se[session.current_dimension]]]
          [] frame.pc = "store" ->
               [ss |-> [ss EXCEPT ![frame.session_id] =
                           CountAnswer([session EXCEPT
                               !.theta[session.current_dimension] = frame.new_theta,
                               !.se[session.current_dimension] = frame.new_se])],
                frame |-> [frame EXCEPT !.pc = "complete"]]
          [] frame.pc = "complete" ->
               [ss |-> [ss EXCEPT ![frame.session_id] = Completed(session)],
                frame |-> [frame EXCEPT !.pc = "done", !.result = "submitted"]]

\* the coroutine runs until it awaits or returns
RECURSIVE RunToSuspension(_, _)
RunToSuspension(ss, frame) ==
    LET r == HandlerStep(ss, frame)
    IN  IF r.frame.pc = "done" \/ Suspends(r.frame.pc) THEN r
        ELSE RunToSuspension(r.ss, r.frame)

\* the client sends the answer to the question it was given twice at once
\* (a double click), possibly with different responses
IssuePair(sid) ==
    \E response_1, response_2 \in {2, 5} :
        /\ sid \in DOMAIN sessions
        /\ reply.kind = "question"
        /\ DOMAIN tasks = {}
        /\ sessions[sid].total_questions_answered + 2 <= MaxConcurrentAnswers
        /\ tasks' = [t \in TaskIds |->
                        NewTask(sid, reply.question_id,
                                IF t = "r1" THEN response_1 ELSE response_2)]
        /\ UNCHANGED <<sessions, reply, respondent, phase, persisted, call>>

\* the event loop runs one of the pending coroutines
RunTask(t) ==
    /\ t \in DOMAIN tasks
    /\ tasks[t].pc # "done"
    /\ \E r \in {RunToSuspension(sessions, tasks[t])} :
           /\ sessions' = r.ss
           /\ tasks' = [tasks EXCEPT ![t] = r.frame]
           /\ reply' = IF r.frame.pc # "done" THEN reply
                        ELSE IF r.frame.result = "submitted"
                        THEN [kind |-> "submitted",
                              question_id |-> r.frame.question_id,
                              dimension |-> r.ss[r.frame.session_id].current_dimension,
                              total_answered |->
                                  r.ss[r.frame.session_id].total_questions_answered]
                        ELSE [NoReply EXCEPT !.kind = r.frame.result]
           /\ persisted' = IF r.frame.result = "submitted" THEN r.ss ELSE persisted
    /\ UNCHANGED <<respondent, phase, call>>

\* both responses have reached the client
Collect ==
    /\ DOMAIN tasks # {}
    /\ \A t \in DOMAIN tasks : tasks[t].pc = "done"
    /\ tasks' = <<>>
    /\ UNCHANGED <<sessions, reply, respondent, phase, persisted, call>>

NextConcurrent ==
    \/ \E sid \in SessionIds :
          \/ CreateSession(sid)
          \/ NextItem(sid)
          \/ IssuePair(sid)
    \/ \E t \in TaskIds : RunTask(t)
    \/ Collect

SpecConcurrent == Init /\ [][NextConcurrent]_vars

\* ------------------------------------------------------ two sessions
\* Two sessions side by side, created from different states of the question
\* cache; each client answers items of its current pool.
TwinIds == {"s1", "s2"}

\* cap on the answers of each of the two sessions
MaxTwinAnswers == 2

CreateTwin(sid) ==
    \E all_questions \in TwinPoolChoices :
        /\ create_session(sid, all_questions)
        /\ UNCHANGED <<respondent, phase, tasks, call>>

TwinAnswer(sid) ==
    \E i \in 1..2, response \in {2, 5} :
        /\ sid \in DOMAIN sessions
        /\ sessions[sid].total_questions_answered < MaxTwinAnswers
        /\ submit_answer(sid,
                         sessions[sid].generated_questions[
                             sessions[sid].current_dimension][i].question_id,
                         response)
        /\ UNCHANGED <<respondent, phase, tasks, call>>

NextTwin ==
    \E sid \in TwinIds :
        \/ CreateTwin(sid)
        \/ TwinAnswer(sid)

SpecTwin == Init /\ [][NextTwin]_vars

\* ------------------------------------------------- the test taken in turn
\* A client that asks for a question when it holds none and then answers
\* exactly that question, on pools holding at least max_per_dimension
\* items in every dimension.
LongPools ==
    [BankPools EXCEPT
       !["openness"] = BankPools["openness"]
                         \o <<Item("o11", 0, 16, FALSE), Item("o12", -400, 15, TRUE)>>]

FullPoolChoices == {BankPools, GeneratedPools, RecalibratedPools, LongPools}

TurnStyles == Styles \cup {"disagree", "neutral", "mixed"}

\* the response in 1..5 the client gives to question q as its n-th answer
TurnResponse(style, q, n) ==
    IF style \in Styles THEN Respond(style, q)
    ELSE IF style = "disagree" THEN 1
    ELSE IF style = "neutral" THEN 3
    ELSE ((2 * n) % 5) + 1

CreateTurn(sid) ==
    \E all_questions \in FullPoolChoices, style \in TurnStyles :
        /\ create_session(sid, all_questions)
        /\ respondent' = respondent @@ (sid :> style)
        /\ UNCHANGED <<phase, tasks, call>>

NextItemTurn(sid) ==
    /\ sid \in DOMAIN sessions
    /\ reply.kind \in {"created", "submitted"}
    /\ NextItem(sid)

AnswerTurn(sid) ==
    /\ sid \in DOMAIN sessions
    /\ reply.kind = "question"
    /\ sessions[sid].total_questions_answered < MaxAnswers
    /\ submit_answer(sid, reply.question_id,
                     TurnResponse(respondent[sid],
                                  PoolItem(sessions[sid], reply.question_id),
                                  sessions[sid].total_questions_answered + 1))
    /\ UNCHANGED <<respondent, phase, tasks, call>>

NextTurn ==
    \E sid \in SessionIds :
        \/ CreateTurn(sid)
        \/ NextItemTurn(sid)
        \/ AnswerTurn(sid)

\* the "kind" of the replies the three handlers send
ReplyKinds ==
    {"created", "question", "submitted", "no_more_questions", "error",
     "session_not_found", "question_not_found"}

QuestionIds ==
    {""} \cup {all_questions[dim][i].question_id :
                   all_questions \in FullPoolChoices, dim \in Dimensions,
                   i \in 1..max_per_dimension}
         \cup {LongPools["openness"][i].question_id :
                   i \in 1..Len(LongPools["openness"])}

\* the client has a request to send
TurnReady(sid) ==
    \/ sid \notin DOMAIN sessions
    \/ /\ sid \in DOMAIN sessions
       /\ \/ reply.kind \in {"created", "submitted"}
          \/ /\ reply.kind = "question"
             /\ sessions[sid].total_questions_answered < MaxAnswers

\* The request the client is ready to send is served: the reply it holds is
\* replaced by the handler's.  Every step of NextTurn is such a step, and
\* one is possible exactly when the client is ready.
TurnServed ==
    \E sid \in SessionIds :
        /\ TurnReady(sid)
        /\ reply' \in [kind : ReplyKinds, question_id : QuestionIds,
                       dimension : Dimensions \cup {""},
                       total_answered : 0..MaxAnswers]

\* The handlers contain no await and always return, and uvicorn serves
\* every request it receives, so a request the client keeps ready is
\* eventually answered.
SpecTurn == Init /\ [][NextTurn]_vars /\ WF_reply(TurnServed)

\* ------------------------------------------- reload from the snapshot
\* load_sessions: the session map becomes what the last save_sessions
\* wrote (an empty map when nothing was written).  The admin endpoints call
\* it at the start of every request.
load_sessions ==
    sessions' = persisted

\* GET /api/admin/dashboard while a respondent takes the test
AdminDashboard ==
    /\ load_sessions
    /\ UNCHANGED <<reply, respondent, phase, tasks, persisted, call>>

\* the client answers the question it holds; the item it read is the one of
\* that id in the pool of the dimension the question was served from
AnswerHeld(sid) ==
    /\ sid \in DOMAIN sessions
    /\ reply.kind = "question"
    /\ sessions[sid].total_questions_answered < MaxAnswers
    /\ LET pool == sessions[sid].generated_questions[reply.dimension]
           held == pool[CHOOSE i \in 1..Len(pool) :
                            pool[i].question_id = reply.question_id]
       IN  submit_answer(sid, reply.question_id, Respond(respondent[sid], held))
    /\ UNCHANGED <<respondent, phase, tasks, call>>

NextReload ==
    \/ \E sid \in SessionIds :
          \/ CreateSession(sid)
          \/ NextItem(sid)
          \/ AnswerHeld(sid)
    \/ AdminDashboard

SpecReload == Init /\ [][NextReload]_vars

\* ------------------------------------------------ the engine on its own
\* The methods of the module-level adaptive_engine object called directly,
\* as a script importing it can: should_stop_testing on its three
\* arguments, and the recording and estimation steps of submit_answer on a
\* response history that grows by one record per call.
StopSeValues == {10, 29, 30, 31, 60, 100}
StopTotals == {0, 24, 49, 50}

\* longest response history given to the estimator
MaxHistory == 5

\* difficulty of the item answered at each position of the history
ScenarioDifficulties == <<-1000, -500, 0, 500, 1000>>

ScenarioItem(i, discrimination, reverse_scored) ==
    Item("q", ScenarioDifficulties[((i - 1) % Len(ScenarioDifficulties)) + 1],
         discrimination, reverse_scored)

\* theta, se and loop passes for the records of one dimension
EstimateCall(history) ==
    LET session == UpdateEstimate(
                       [NewSession(GeneratedPools) EXCEPT
                           !.questions_answered["openness"] = history])
        n == Len(history)
    IN  [method |-> "estimate_theta",
         history |-> history,
         theta |-> session.theta["openness"],
         se |-> session.se["openness"],
         iterations |->
             Iterations([i \in 1..n |-> BinaryResponse(history[i])],
                        [i \in 1..n |-> history[i].difficulty],
                        [i \in 1..n |-> history[i].discrimination])]

CallEstimateTheta ==
    /\ \/ call' = EstimateCall(<<>>)
       \/ /\ call.method = "estimate_theta"
          /\ Len(call.history) < MaxHistory
          /\ \E discrimination \in {15, 25},
                answer \in {<<5, FALSE>>, <<2, FALSE>>, <<1, TRUE>>} :
                LET question == ScenarioItem(Len(call.history) + 1,
                                             discrimination, answer[2])
                    session == RecordAnswer(
                                   [NewSession(GeneratedPools) EXCEPT
                                       !.questions_answered["openness"] = call.history],
                                   question, answer[1])
                IN  call' = EstimateCall(session.questions_answered["openness"])
    /\ UNCHANGED <<sessions, reply, respondent, phase, tasks, persisted>>

CallShouldStopTesting ==
    /\ \E se \in StopSeValues, num_questions \in StopTotals,
          count \in 0..(max_per_dimension + 1) :
          call' = [method |-> "should_stop_testing",
                   se |-> se, num_questions |-> num_questions, count |-> count,
                   result |-> should_stop_testing(se, num_questions,
                                                  [i \in 1..count |-> "answer"])]
    /\ UNCHANGED <<sessions, reply, respondent, phase, tasks, persisted>>

NextEngine ==
    \/ CallEstimateTheta
    \/ CallShouldStopTesting

SpecEngine == Init /\ [][NextEngine]_vars

\* ================================================================ claims
TotalResponses(session) ==
    SeqSum([dim \in Dimensions |-> Len(session.questions_answered[dim])],
           PERSONALITY_DIMENSIONS)

TotalCounted(session) ==
    SeqSum(session.dimension_question_count, PERSONALITY_DIMENSIONS)

\* C1: in every state total_questions_answered equals the number of recorded
\* responses summed over the five dimensions, and the sum of
\* dimension_question_count; no step, successful or failing, lowers it.
C1_TotalIsSumAndMonotone ==
    /\ [](\A sid \in DOMAIN sessions :
            /\ sessions[sid].total_questions_answered = TotalResponses(sessions[sid])
            /\ sessions[sid].total_questions_answered = TotalCounted(sessions[sid]))
    /\ [][\A sid \in DOMAIN sessions :
            /\ sid \in DOMAIN sessions'
            /\ sessions'[sid].total_questions_answered
                 >= sessions[sid].total_questions_answered]_vars

\* a refused answer arrives after answers went into two dimensions
C1_Witness ==
    \E sid \in DOMAIN sessions :
        /\ reply.kind = "question_not_found"
        /\ Len(sessions[sid].questions_answered["openness"]) >= max_per_dimension
        /\ Len(sessions[sid].questions_answered["conscientiousness"]) >= 1

\* C2: no dimension ever holds more than max_per_dimension responses.
C2_ResponsesWithinMax ==
    \A sid \in DOMAIN sessions : \A dim \in Dimensions :
        Len(sessions[sid].questions_answered[dim]) <= max_per_dimension

\* C3: no question_id occurs twice among the responses of one dimension.
C3_NoRepeatedQuestion ==
    \A sid \in DOMAIN sessions : \A dim \in Dimensions :
        \A i, j \in 1..Len(sessions[sid].questions_answered[dim]) :
            i # j => sessions[sid].questions_answered[dim][i].question_id
                       # sessions[sid].questions_answered[dim][j].question_id

\* C4: once a session is completed no request changes its responses, theta,
\* se, counters or current dimension, and no request is answered with a
\* question.  Stated for a client that answers every question it is given
\* exactly once (phase "following"), where every cap and filter of
\* get_current_question has applied.
C4_CompletedIsTerminal ==
    [][\A sid \in DOMAIN sessions :
          (phase = "following" /\ phase' = "following"
             /\ sessions[sid].status = "completed") =>
              /\ sessions'[sid].questions_answered = sessions[sid].questions_answered
              /\ sessions'[sid].theta = sessions[sid].theta
              /\ sessions'[sid].se = sessions[sid].se
              /\ sessions'[sid].dimension_question_count
                   = sessions[sid].dimension_question_count
              /\ sessions'[sid].total_questions_answered
                   = sessions[sid].total_questions_answered
              /\ sessions'[sid].current_dimension = sessions[sid].current_dimension
              /\ reply'.kind # "question"]_vars

\* C5: a completed session stays completed under every request, so the
\* change from active to completed happens at most once.
C5_CompletedNeverReverts ==
    [][\A sid \in DOMAIN sessions :
          /\ sid \in DOMAIN sessions'
          /\ sessions[sid].status = "completed"
               => sessions'[sid].status = "completed"]_vars

\* an answer was accepted after the session had been completed
C5_Witness ==
    \E sid \in DOMAIN sessions :
        /\ sessions[sid].status = "completed"
        /\ reply.kind = "submitted"
        /\ sessions[sid].total_questions_answered > max_questions

\* C6: the stored theta of every dimension lies in [min_theta, max_theta].
C6_ThetaWithinBounds ==
    \A sid \in DOMAIN sessions : \A dim \in Dimensions :
        /\ min_theta <= sessions[sid].theta[dim]
        /\ sessions[sid].theta[dim] <= max_theta

\* one dimension was estimated at the clamp, another strictly inside it
C6_Witness ==
    \E sid \in DOMAIN sessions : \E d1, d2 \in Dimensions :
        /\ Len(sessions[sid].questions_answered[d1]) >= 1
        /\ sessions[sid].theta[d1] \in {min_theta, max_theta}
        /\ Len(sessions[sid].questions_answered[d2]) >= min_per_dimension
        /\ sessions[sid].theta[d2] \notin {min_theta, 0, max_theta}

\* the per-dimension stop predicate as the design states it
C7_StopPredicate(se, count) ==
    \/ se <= target_se /\ count >= min_per_dimension
    \/ count >= max_per_dimension

\* C7: the code's "needs more questions" test is the negation of the stop
\* predicate for every se and count, and an accepted answer leaves the session
\* completed exactly when the total has reached max_questions or every
\* dimension satisfies the stop predicate; otherwise the status is unchanged.
C7_CompletesExactlyWhenDue ==
    /\ \A se \in 0..320 : \A count \in 0..(max_per_dimension + 2) :
          NeedsMoreQuestions([i \in 1..count |-> 0], se) = ~C7_StopPredicate(se, count)
    /\ [][\A sid \in DOMAIN sessions :
            (reply'.kind = "submitted" /\ sessions'[sid] # sessions[sid]) =>
              LET after == sessions'[sid]
                  due == \/ after.total_questions_answered >= max_questions
                         \/ \A dim \in Dimensions :
                               C7_StopPredicate(after.se[dim],
                                                Len(after.questions_answered[dim]))
              IN  after.status = IF due THEN "completed" ELSE sessions[sid].status]_vars

\* an answer completed the session on precision, before max_questions
C7_Witness ==
    \E sid \in DOMAIN sessions :
        /\ reply.kind = "submitted"
        /\ sessions[sid].status = "completed"
        /\ sessions[sid].total_questions_answered < max_questions

C9_PrecisionStopsDimension ==
    \A sid \in DOMAIN sessions :
        (phase = "following" /\ reply.kind = "question") =>
            ~(/\ sessions[sid].se[reply.dimension] <= target_se
              /\ Len(sessions[sid].questions_answered[reply.dimension])
                   >= min_per_dimension)

\* C10: the current dimension changes only in a request for the next
\* question, only when its count has reached max_per_dimension, and only to
\* its successor in the order of questions_db; such a request at the last
\* dimension completes the session and is answered "no more questions".
C10_AdvanceOnlyAtMaxToSuccessor ==
    [][\A sid \in DOMAIN sessions :
          LET session == sessions[sid]
              cur == session.current_dimension
              i == CHOOSE k \in 1..Len(questions_db_keys) : questions_db_keys[k] = cur
          IN  /\ sessions'[sid].current_dimension # cur
                 => /\ reply'.kind \in {"question", "error"}
                    /\ session.dimension_question_count[cur] >= max_per_dimension
                    /\ i < Len(questions_db_keys)
                    /\ sessions'[sid].current_dimension = questions_db_keys[i + 1]
              /\ (/\ reply'.kind \in {"question", "no_more_questions", "error"}
                  /\ i = Len(questions_db_keys)
                  /\ session.dimension_question_count[cur] >= max_per_dimension)
                 => /\ reply'.kind = "no_more_questions"
                    /\ sessions'[sid].status = "completed"
                    /\ sessions'[sid].current_dimension = cur]_vars

\* the pointer walked through all five dimensions and the request at the
\* last one ended the test
C10_Witness ==
    \E sid \in DOMAIN sessions :
        /\ reply.kind = "no_more_questions"
        /\ sessions[sid].current_dimension = "neuroticism"
        /\ sessions[sid].status = "completed"
        /\ \A dim \in Dimensions :
              Len(sessions[sid].questions_answered[dim]) >= max_per_dimension

\* C11: a request for the next question that finds the current dimension
\* with fewer than max_per_dimension answers and no unanswered item left is
\* not answered with an error: it moves to the next dimension, or completes
\* the session at the last dimension.
C11_ExhaustedPoolAdvances ==
    [][\A sid \in DOMAIN sessions :
          LET session == sessions[sid]
              cur == session.current_dimension
          IN  (/\ reply'.kind \in {"question", "no_more_questions", "error"}
               /\ session.dimension_question_count[cur] < max_per_dimension
               /\ Len(AvailableQuestions(session, cur)) = 0)
              => /\ reply'.kind # "error"
                 /\ IF HasNextDimension(cur)
                    THEN sessions'[sid].current_dimension = NextDimension(cur)
                    ELSE sessions'[sid].status = "completed"]_vars

\* C12: a question handed out belongs to the pool of the session's current
\* dimension and its question_id is not among the ids already recorded in
\* that dimension.
C12_ItemFreshAndOfCurrentPool ==
    \A sid \in DOMAIN sessions :
        reply.kind = "question" =>
            LET session == sessions[sid]
                cur == session.current_dimension
                pool == session.generated_questions[cur]
            IN  /\ reply.dimension = cur
                /\ \E i \in 1..Len(pool) : pool[i].question_id = reply.question_id
                /\ reply.question_id \notin AnsweredIds(session, cur)

\* a question handed out in a dimension that holds repeated answers
C12_Witness ==
    \E sid \in DOMAIN sessions :
        LET session == sessions[sid]
            cur == session.current_dimension
        IN  /\ reply.kind = "question"
            /\ Len(session.questions_answered[cur]) >= 3
            /\ Cardinality(AnsweredIds(session, cur))
                 < Len(session.questions_answered[cur])

\* C13: a question handed out for a dimension without recorded responses
\* has its difficulty in [-0.5, 0.5] whenever the dimension's pool holds
\* such an item, and lies outside the band only when the pool holds none.
C13_FirstItemFromMediumBand ==
    [][\A sid \in DOMAIN sessions :
          (/\ reply'.kind = "question"
           /\ Len(sessions'[sid].questions_answered[reply'.dimension]) = 0)
          => LET pool == sessions'[sid].generated_questions[reply'.dimension]
                 medium(q) == -500 <= q.difficulty /\ q.difficulty <= 500
                 given == pool[CHOOSE i \in 1..Len(pool) :
                                  pool[i].question_id = reply'.question_id]
             IN  medium(given) <=> \E i \in 1..Len(pool) : medium(pool[i])]_vars

\* the first question of a dimension whose pool has no medium item
C13_Witness ==
    \E sid \in DOMAIN sessions :
        /\ reply.kind = "question"
        /\ Len(sessions[sid].questions_answered[reply.dimension]) = 0
        /\ LET pool == sessions[sid].generated_questions[reply.dimension]
           IN  \E i \in 1..Len(pool) :
                   /\ pool[i].question_id = reply.question_id
                   /\ pool[i].difficulty > 500

\* C14: a question handed out for a dimension with at least one recorded
\* response is the unanswered pool item of least |difficulty - theta| for the
\* dimension's theta, the first in pool order among those of equal distance.
C14_ClosestDifficultyFirstInPoolOrder ==
    [][\A sid \in DOMAIN sessions :
          (/\ reply'.kind = "question"
           /\ Len(sessions'[sid].questions_answered[reply'.dimension]) >= 1)
          => LET session == sessions'[sid]
                 dim == reply'.dimension
                 pool == session.generated_questions[dim]
                 open == {i \in 1..Len(pool) :
                            pool[i].question_id \notin AnsweredIds(session, dim)}
                 dist(i) == Abs(pool[i].difficulty - session.theta[dim])
             IN  \E i \in open :
                     /\ pool[i].question_id = reply'.question_id
                     /\ \A j \in open :
                            dist(i) < dist(j) \/ (dist(i) = dist(j) /\ i <= j)]_vars

\* the question handed out is not the one select_next_item would pick
C14_Witness ==
    \E sid \in DOMAIN sessions :
        LET session == sessions[sid]
            cur == session.current_dimension
        IN  /\ reply.kind = "question"
            /\ Len(session.questions_answered[cur]) >= 1
            /\ select_next_item(session.theta[cur], session.generated_questions[cur],
                                session.questions_answered[cur]).question_id
                 # reply.question_id

\* C15: a session that create_session has just stored is active, its current
\* dimension is the first of the order in which get_current_question
\* advances, every dimension has theta 0.0, se 1.0 and no responses, and
\* the total is 0.
C15_NewSessionInitialValues ==
    [][\A sid \in DOMAIN sessions' \ DOMAIN sessions :
          LET session == sessions'[sid]
          IN  /\ reply'.kind = "created"
              /\ session.status = "active"
              /\ session.current_dimension = questions_db_keys[1]
              /\ reply'.dimension = questions_db_keys[1]
              /\ \A dim \in Dimensions :
                     /\ session.theta[dim] = 0
                     /\ session.se[dim] = 100
                     /\ session.questions_answered[dim] = <<>>
                     /\ session.dimension_question_count[dim] = 0
              /\ session.total_questions_answered = 0]_vars

\* the state right after a session was created
C15_Witness ==
    \E sid \in DOMAIN sessions :
        /\ reply.kind = "created"
        /\ sessions[sid].status = "active"
        /\ sessions[sid].generated_questions \in PoolChoices

\* C16: an answer refused because the session id is unknown or because the
\* question id is not in the pool of the current dimension leaves every
\* session exactly as it was.
C16_RefusedAnswerChangesNothing ==
    [][reply'.kind \in {"session_not_found", "question_not_found"}
         => sessions' = sessions]_vars

\* an answer under an unknown session id arrives while a known session is
\* in its second dimension
C16_Witness ==
    \E sid \in DOMAIN sessions :
        /\ reply.kind = "session_not_found"
        /\ sessions[sid].current_dimension = "conscientiousness"
        /\ Len(sessions[sid].questions_answered["conscientiousness"]) >= 2

\* C17: two answers sent at once take effect one after the other: whenever
\* no coroutine is in the middle of the handler every count equals the length
\* of its sequence, the total equals the number of recorded responses, and
\* theta and se are the estimate from the full sequence; a request that
\* returns has done exactly what submit_answer does in one piece, so the two
\* add two records and 2 to the total.
C17_SimultaneousAnswersSerialized ==
    /\ []((\A t \in DOMAIN tasks : tasks[t].pc \in {"lookup", "done"}) =>
            \A sid \in DOMAIN sessions : \A dim \in Dimensions :
                LET session == sessions[sid]
                    estimated == UpdateEstimate(
                                     [session EXCEPT !.current_dimension = dim])
                IN  /\ session.dimension_question_count[dim]
                         = Len(session.questions_answered[dim])
                    /\ session.total_questions_answered = TotalResponses(session)
                    /\ session.theta[dim] = estimated.theta[dim]
                    /\ session.se[dim] = estimated.se[dim])
    /\ [][\A t \in DOMAIN tasks :
            (/\ tasks[t].pc = "lookup"
             /\ tasks'[t].pc = "done"
             /\ tasks'[t].result = "submitted") =>
              LET sid == tasks[t].session_id
                  cur == sessions[sid].current_dimension
                  before == sessions[sid].questions_answered[cur]
                  after == sessions'[sid].questions_answered[cur]
              IN  /\ Len(after) = Len(before) + 1
                  /\ after[Len(after)].question_id = tasks[t].question_id
                  /\ after[Len(after)].response = tasks[t].response
                  /\ sessions'[sid].total_questions_answered
                       = sessions[sid].total_questions_answered + 1
                  /\ sessions' = [sessions EXCEPT ![sid] =
                         Completed(Recorded(sessions[sid],
                                            PoolItem(sessions[sid], tasks[t].question_id),
                                            tasks[t].response))]]_vars

\* both requests of a pair have returned, with different responses recorded
C17_Witness ==
    /\ DOMAIN tasks = TaskIds
    /\ \A t \in TaskIds : tasks[t].pc = "done" /\ tasks[t].result = "submitted"
    /\ tasks["r1"].response # tasks["r2"].response
    /\ \E sid \in DOMAIN sessions :
          LET answered == sessions[sid].questions_answered[sessions[sid].current_dimension]
          IN  /\ Len(answered) >= 4
              /\ answered[Len(answered)].response = tasks["r1"].response
              /\ answered[Len(answered) - 1].response = tasks["r2"].response

\* C18: the total number of recorded answers of a session never exceeds
\* max_questions, so the progress reported with a question or an accepted
\* answer, total_answered / max_questions, never exceeds 100 percent.
C18_TotalWithinMaxQuestions ==
    /\ \A sid \in DOMAIN sessions :
          /\ sessions[sid].total_questions_answered <= max_questions
          /\ TotalResponses(sessions[sid]) <= max_questions
    /\ reply.kind \in {"question", "submitted"}
          => reply.total_answered * 100 <= 100 * max_questions

\* C19: max_questions is the number of dimensions times max_per_dimension,
\* min_questions the number of dimensions times min_per_dimension, the engine
\* holds the values of a fresh IRTParameters, and a session with
\* max_per_dimension answers in every dimension has max_questions answers.
C19_ConfigurationConsistent ==
    /\ max_questions = 50
    /\ min_questions = 25
    /\ Len(PERSONALITY_DIMENSIONS) = 5
    /\ Cardinality(Dimensions) = 5
    /\ irt_params.max_questions = max_questions
    /\ irt_params.min_questions = min_questions
    /\ irt_params.max_per_dimension = max_per_dimension
    /\ irt_params.min_per_dimension = min_per_dimension
    /\ irt_params.max_questions
         = Len(PERSONALITY_DIMENSIONS) * irt_params.max_per_dimension
    /\ irt_params.min_questions
         = Len(PERSONALITY_DIMENSIONS) * irt_params.min_per_dimension
    /\ \A sid \in DOMAIN sessions :
          (\A dim \in Dimensions :
              Len(sessions[sid].questions_answered[dim]) = irt_params.max_per_dimension)
          => /\ sessions[sid].total_questions_answered = irt_params.max_questions
             /\ TotalResponses(sessions[sid]) = irt_params.max_questions

\* the answer that fills the last dimension has just been accepted
C19_Witness ==
    \E sid \in DOMAIN sessions :
        /\ reply.kind = "submitted"
        /\ phase = "following"
        /\ \A dim \in Dimensions :
              Len(sessions[sid].questions_answered[dim]) = max_per_dimension

\* C20: the outcome given to the estimator is 1 exactly when the response,
\* taken as 6 - r for a reverse-scored item, is at least 4: r in {4, 5} for
\* a normal item, r in {1, 2} for a reverse-scored one, never r = 3; and the
\* theta and se stored by an accepted answer are the estimate from the
\* responses so binarized.
C20_EndorsedFromFour ==
    /\ \A r \in 1..5 : \A reverse_scored \in BOOLEAN :
          LET aq == [question_id |-> "q", response |-> r, difficulty |-> 0,
                     discrimination |-> 10, reverse_scored |-> reverse_scored]
          IN  /\ BinaryResponse(aq) \in {0, 1}
              /\ BinaryResponse(aq) = 1
                   <=> (IF reverse_scored THEN 6 - r ELSE r) >= 4
              /\ BinaryResponse(aq) = 1
                   <=> (IF reverse_scored THEN r \in {1, 2} ELSE r \in {4, 5})
    /\ [][\A sid \in DOMAIN sessions :
            (reply'.kind = "submitted" /\ sessions'[sid] # sessions[sid]) =>
              LET dim == reply'.dimension
                  answered == sessions'[sid].questions_answered[dim]
                  n == Len(answered)
                  endorsed(aq) == IF aq.reverse_scored THEN aq.response \in {1, 2}
                                  ELSE aq.response \in {4, 5}
                  estimate ==
                      estimate_theta(
                          [i \in 1..n |-> IF endorsed(answered[i]) THEN 1 ELSE 0],
                          [i \in 1..n |-> answered[i].difficulty],
                          [i \in 1..n |-> answered[i].discrimination])
              IN  /\ sessions'[sid].theta[dim] = estimate[1]
                  /\ sessions'[sid].se[dim] = estimate[2]]_vars

\* a dimension holds an endorsed reverse-scored answer, and a dimension holds
\* a neutral answer to a normal item
C20_Witness ==
    \E sid \in DOMAIN sessions : \E d1, d2 \in Dimensions :
        /\ reply.kind = "submitted"
        /\ \E i \in 1..Len(sessions[sid].questions_answered[d1]) :
              /\ sessions[sid].questions_answered[d1][i].reverse_scored
              /\ sessions[sid].questions_answered[d1][i].response <= 2
        /\ \E i \in 1..Len(sessions[sid].questions_answered[d2]) :
              /\ ~sessions[sid].questions_answered[d2][i].reverse_scored
              /\ sessions[sid].questions_answered[d2][i].response = 3

C22_AnswerTouchesOneDimension ==
    [][(reply'.kind = "submitted" /\ sessions' # sessions) =>
         /\ DOMAIN sessions' = DOMAIN sessions
         /\ \E sid \in DOMAIN sessions :
               LET before == sessions[sid]
                   after == sessions'[sid]
                   cur == before.current_dimension
                   n == Len(before.questions_answered[cur])
               IN  /\ \A other \in DOMAIN sessions \ {sid} :
                          sessions'[other] = sessions[other]
                   /\ after.current_dimension = cur
                   /\ reply'.dimension = cur
                   /\ after.generated_questions = before.generated_questions
                   /\ \A dim \in Dimensions \ {cur} :
                          /\ after.questions_answered[dim] = before.questions_answered[dim]
                          /\ after.theta[dim] = before.theta[dim]
                          /\ after.se[dim] = before.se[dim]
                          /\ after.dimension_question_count[dim]
                               = before.dimension_question_count[dim]
                   /\ Len(after.questions_answered[cur]) = n + 1
                   /\ SubSeq(after.questions_answered[cur], 1, n)
                        = before.questions_answered[cur]
                   /\ after.dimension_question_count[cur]
                        = before.dimension_question_count[cur] + 1
                   /\ after.total_questions_answered
                        = before.total_questions_answered + 1
                   /\ after.status \in {before.status, "completed"}]_vars

\* an answer was accepted for one session while the other holds answers too
C22_Witness ==
    \E s1, s2 \in DOMAIN sessions :
        /\ s1 # s2
        /\ reply.kind = "submitted"
        /\ reply.total_answered = 2
        /\ sessions[s1].total_questions_answered = 2
        /\ sessions[s2].total_questions_answered = 1
        /\ sessions[s1].questions_answered["openness"][1]
             # sessions[s2].questions_answered["openness"][1]

\* C23: should_stop_testing returns False whenever the dimension holds fewer
\* than min_per_dimension answers, whatever se is, and returns True when it
\* holds max_per_dimension answers or more.
C23_StopRespectsMinimum ==
    call.method = "should_stop_testing" =>
        /\ call.count < min_per_dimension => call.result = FALSE
        /\ call.count >= max_per_dimension => call.result = TRUE

\* C24: estimate_theta on an empty response sequence returns (0.0, 1.0)
\* without a pass of the Newton-Raphson loop, the theta and se every
\* dimension holds in a new session.
C24_EmptyHistoryGivesPrior ==
    /\ estimate_theta(<<>>, <<>>, <<>>) = <<0, 100>>
    /\ Iterations(<<>>, <<>>, <<>>) = 0
    /\ \A all_questions \in PoolChoices \cup SparsePoolChoices :
          \A dim \in Dimensions :
              /\ NewSession(all_questions).theta[dim]
                   = estimate_theta(<<>>, <<>>, <<>>)[1]
              /\ NewSession(all_questions).se[dim]
                   = estimate_theta(<<>>, <<>>, <<>>)[2]
    /\ (call.method = "estimate_theta" /\ call.history = <<>>)
          => call.theta = 0 /\ call.se = 100 /\ call.iterations = 0

\* the estimator was called on an empty history
C24_Witness ==
    /\ call.method = "estimate_theta"
    /\ call.history = <<>>
    /\ call.se = 100

\* C25: five answers of 5 to normally scored items of difficulty -1, -0.5,
\* 0, 0.5, 1 and discrimination 1.5 give a theta above 0 and inside
\* [min_theta, max_theta]; any non-empty history whose binarized outcomes
\* are all 1 gives a theta above 0.
C25_AllEndorsedGivesPositiveTheta ==
    (call.method = "estimate_theta" /\ call.history # <<>>) =>
        /\ call.theta >= min_theta /\ call.theta <= max_theta
        /\ (\A i \in 1..Len(call.history) : BinaryResponse(call.history[i]) = 1)
              => call.theta > 0
        /\ ( /\ Len(call.history) = 5
             /\ \A i \in 1..5 :
                   /\ call.history[i].response = 5
                   /\ ~call.history[i].reverse_scored
                   /\ call.history[i].discrimination = 15
                   /\ call.history[i].difficulty = ScenarioDifficulties[i] )
              => call.theta > 0 /\ call.theta <= max_theta

\* the five-answer scenario has been estimated
C25_Witness ==
    /\ call.method = "estimate_theta"
    /\ Len(call.history) = 5
    /\ \A i \in 1..5 :
          /\ call.history[i].response = 5
          /\ ~call.history[i].reverse_scored
          /\ call.history[i].discrimination = 15
          /\ call.history[i].difficulty = ScenarioDifficulties[i]
    /\ call.theta > 0

\* C26: in every session the dimensions before the current one in the
\* advance order hold at least max_per_dimension recorded responses each
\* and the dimensions after it hold none.
C26_AnswersFillDimensionsInOrder ==
    \A sid \in DOMAIN sessions :
        LET session == sessions[sid]
            current == IndexOf(questions_db_keys, session.current_dimension)
        IN  \A i \in 1..Len(questions_db_keys) :
                /\ i < current =>
                     Len(session.questions_answered[questions_db_keys[i]])
                         >= max_per_dimension
                /\ i > current =>
                     Len(session.questions_answered[questions_db_keys[i]]) = 0

\* the pointer stands on the third dimension, which holds answers, with
\* the two before it filled
C26_Witness ==
    \E sid \in DOMAIN sessions :
        /\ sessions[sid].current_dimension = questions_db_keys[3]
        /\ Len(sessions[sid].questions_answered[questions_db_keys[3]]) > 0
        /\ Len(sessions[sid].questions_answered[questions_db_keys[1]])
             >= max_per_dimension
        /\ Len(sessions[sid].questions_answered[questions_db_keys[2]])
             >= max_per_dimension

\* C27: a completed session holds at least min_per_dimension recorded
\* responses in every one of the five dimensions.
C27_CompletedCoversEveryDimension ==
    \A sid \in DOMAIN sessions :
        sessions[sid].status = "completed" =>
            \A dim \in Dimensions :
                Len(sessions[sid].questions_answered[dim]) >= min_per_dimension

\* C28: no step moves a session's current dimension to an earlier one in
\* the advance order or takes back its completion, whether the step is a
\* question request, an answer or a reload of the sessions from the
\* snapshot.
C28_PointerNeverMovesBack ==
    [][\A sid \in DOMAIN sessions :
           /\ sid \in DOMAIN sessions'
           /\ IndexOf(questions_db_keys, sessions'[sid].current_dimension)
                >= IndexOf(questions_db_keys, sessions[sid].current_dimension)
           /\ sessions[sid].status = "completed"
                => sessions'[sid].status = "completed"]_vars

C30_BankPrecisionNeverStops ==
    \A sid \in DOMAIN sessions :
        LET session == sessions[sid]
        IN  (\A dim \in Dimensions :
                \A i \in 1..Len(session.generated_questions[dim]) :
                    session.generated_questions[dim][i].discrimination <= 18)
            =>
            /\ \A dim \in Dimensions :
                  LET answered == session.questions_answered[dim]
                      n == Len(answered)
                  IN  n <= max_per_dimension =>
                        /\ InfoSum([i \in 1..n |-> answered[i].difficulty],
                                   [i \in 1..n |-> answered[i].discrimination],
                                   session.theta[dim], 1) <= 81000
                        /\ session.se[dim] > target_se
            /\ session.status = "completed"
                 <=> session.total_questions_answered >= max_questions

\* a session on bank items was completed by its fiftieth answer
C30_Witness ==
    \E sid \in DOMAIN sessions :
        /\ sessions[sid].generated_questions = BankPools
        /\ sessions[sid].status = "completed"
        /\ sessions[sid].total_questions_answered = max_questions
        /\ \A dim \in Dimensions :
              Len(sessions[sid].questions_answered[dim]) = max_per_dimension

====
